---- MODULE Spec2Model ----
(***************************************************************************)
(* The token HUD of pf2e-hud (src/src/hud/token.ts, class PF2eHudToken).   *)
(*                                                                         *)
(* The HUD tracks zero or one token, owns one main DOM element, has a      *)
(* subordinate sidebar slot and renders asynchronously.  The handlers of   *)
(* token.ts are translated as operators from a HUD state record to a HUD   *)
(* state record, so that a handler that calls other handlers is their      *)
(* composition; one action per entry point applies the operator.           *)
(*                                                                         *)
(* The base classes (./base/token, ./base/advanced) are not part of the    *)
(* sources at hand: toggleSidebar, close, render, super.setToken and       *)
(* super._prepareContext follow the written specification (sections 4.1,   *)
(* 4.4, 4.5 and 5) and are marked as such where they are defined.          *)
(***************************************************************************)
EXTENDS Naturals, FiniteSets, Sequences, TLC

VARIABLES
    token,          \* this.token: the tracked token, or NoToken
    sidebar,        \* this.sidebar: the showing sidebar's key, or NoSidebar
    mainElement,    \* this.#mainElement: NoElement or the element's record
    mains,          \* the #pf2e-hud-token-main elements in the document
    panel,          \* the showing sidebar's panel: "none", "pending" (its render
                    \* is requested), "rendered", "placed" (positioned from the
                    \* main element's present anchor) or "stale" (positioned from
                    \* an outdated one)
    element,        \* this.element: the application frame is in the document
    canvasPanHook,  \* this.#canvasPanHook is active
    initialized,    \* this.#initialized
    registrations,  \* how many times the wrappers and hooks of _onEnable have
                    \* been registered with the host
    activeElement,  \* document.activeElement
    settings,       \* the settings store: the keys whose change runs a handler
    sheetRendered,  \* the actors whose full sheet is rendered (actor.sheet.rendered)
    queued,         \* render() requests accepted and not yet started
    inflight,       \* the render suspended in super._prepareContext, or NoRender
    ret,            \* what the last closeIf returned: "none", "true", "false"
    err,            \* the last handler ended by throwing
    last,           \* the last entry point run, its argument, the setting it
                    \* read, and the tracked token and sidebar it started from
    call,           \* a direct call of _updatePosition: its inputs and its result
    actor,          \* what the actions sidebar reads of the tracked actor and of
                    \* the toolbelt module, and the stored data of its items
    updates,        \* the document updates issued and not applied yet, in order
    used,           \* the stored frequency at the start, and how many use-action
                    \* clicks have found it greater than 0
    sections        \* actionSections of the context the sidebar built last

vars == << token, sidebar, mainElement, element, canvasPanHook, initialized,
           activeElement, settings, sheetRendered, queued, inflight, ret, err,
           last, mains, panel, call, registrations, actor, updates, used,
           sections >>

----------------------------------------------------------------------------
(* Bounds *)

\* render() requests that may wait behind the render in flight
MaxQueue == 1

\* The greatest frequency.max of an item, and so the greatest stored value
MaxFrequency == 2

\* Document updates that may be in flight at once
MaxPending == 2

----------------------------------------------------------------------------
(* The values *)

NoToken == "none"
NoSidebar == "none"
\* null in this.#mainElement
NoElement ==
    [body |-> "null", exploded |-> FALSE, wrapper |-> "none", attached |-> FALSE,
     positioned |-> FALSE]
\* no render is suspended
NoRender == [hasActor |-> FALSE, actor |-> "null"]
NoFocus == "body"

\* Tokens the user owns, of an allowed actor type: "A" and "B" have a health
\* block, "H" (a hazard without hit points) has none.
Trackable == {"A", "B", "H"}

\* Tokens that fail one eligibility check whatever the state: "N" is not owned,
\* "L" is loot, "P" is a party, "Q" is the persistent HUD's actor, "Z" has no actor.
Untrackable == {"N", "L", "P", "Q", "Z"}

Tokens == Trackable \cup Untrackable

HasActor(t) == t # "Z"

IsOwner(t) == t # "N"

ActorType(t) ==
    CASE t = "L" -> "loot"
      [] t = "P" -> "party"
      [] t = "H" -> "hazard"
      [] OTHER -> "creature"

InPersistent(t) == t = "Q"

HasHealth(t) == t \in {"A", "B"}

\* The actors whose sheet the model opens and closes
SheetActors == {"A"}

SidebarNames == {"actions", "items"}

\* Names of the inputs the "hud" template renders in a non-empty body
InputNames == {"amount", "qty"}

\* A text input outside the HUD (the chat box)
OutsideInput == "outside"

\* The zooms of the canvas, canvas.stage.scale.x
Scales == {1, 2, 3}

\* The horizontal offsets of the canvas, canvas.primary.getGlobalPosition().x
Offsets == {0, 10}

\* The sizes of a grid square in pixels, canvas.dimensions.size
GridSizes == {50, 100}

\* The canvas at a zoom and an offset, with a grid: its global position, its
\* dimensions and the size of a grid square
Canvas(scale, x, size) ==
    [x |-> x, y |-> 5, width |-> 40, height |-> 30, size |-> size, scale |-> scale]

Canvases == {Canvas(z, x, g) : z \in Scales, x \in Offsets, g \in GridSizes}

\* The canvas before any pan or zoom
HomeCanvas == Canvas(1, 0, 100)

\* token.bounds and token.document of a token: where it is on the canvas and
\* how many grid squares it covers
bounds(t) == IF t = "B" THEN [left |-> 12, top |-> 8] ELSE [left |-> 4, top |-> 6]

document(t) == IF t = "B" THEN [width |-> 2, height |-> 2] ELSE [width |-> 1, height |-> 1]

\* No style written, and the position object {} (the parameter's default)
NoStyle == [set |-> FALSE, left |-> 0, top |-> 0, width |-> 0, height |-> 0, scale |-> 0]

EmptyPosition == NoStyle

\* No direct call of _updatePosition is under way
NoCall ==
    [done |-> FALSE, canvas |-> HomeCanvas, scaleDimensions |-> FALSE,
     given |-> EmptyPosition,
     result |-> [position |-> EmptyPosition, elementStyle |-> NoStyle,
                 mainStyle |-> NoStyle]]

\* The position objects a caller hands to _updatePosition
Positions ==
    { EmptyPosition,
      [set |-> TRUE, left |-> 1, top |-> 2, width |-> 3, height |-> 4, scale |-> 1],
      [set |-> TRUE, left |-> 7, top |-> 7, width |-> 9, height |-> 9, scale |-> 2] }

\* The stances of the toolbelt module, and the actionUUID of each
Stances == {"S", "T"}

actionUUID(stance) == IF stance = "S" THEN "uuid-S" ELSE "uuid-T"

\* The feat and action items of the actor.  name is the rank of the item's
\* name in the order R.sortBy uses; sourceId "none" is a missing source id,
\* cost "none" a null actionCost.  "flurry" has a frequency, whose value is
\* stored in actor.frequency.
Abilities ==
    { [id |-> "stance-strike", name |-> 6, kind |-> "action", sourceId |-> "uuid-S",
       cost |-> "action", traits |-> {}, slug |-> "stance-strike", frequency |-> FALSE],
      [id |-> "flurry", name |-> 3, kind |-> "action", sourceId |-> "uuid-O",
       cost |-> "action", traits |-> {}, slug |-> "flurry", frequency |-> TRUE],
      [id |-> "homebrew", name |-> 4, kind |-> "action", sourceId |-> "none",
       cost |-> "none", traits |-> {}, slug |-> "homebrew", frequency |-> FALSE],
      [id |-> "stance-feat", name |-> 5, kind |-> "feat", sourceId |-> "uuid-T",
       cost |-> "reaction", traits |-> {}, slug |-> "stance-feat", frequency |-> FALSE],
      [id |-> "toughness", name |-> 7, kind |-> "feat", sourceId |-> "uuid-P",
       cost |-> "none", traits |-> {}, slug |-> "toughness", frequency |-> FALSE],
      [id |-> "craft", name |-> 1, kind |-> "action", sourceId |-> "uuid-C",
       cost |-> "action", traits |-> {"downtime"}, slug |-> "craft", frequency |-> FALSE],
      [id |-> "scout", name |-> 2, kind |-> "action", sourceId |-> "uuid-E",
       cost |-> "none", traits |-> {"exploration"}, slug |-> "scout", frequency |-> FALSE],
      [id |-> "blast", name |-> 0, kind |-> "action", sourceId |-> "uuid-B",
       cost |-> "action", traits |-> {}, slug |-> "elemental-blast", frequency |-> FALSE] }

\* The toolbelt module: not active, active with the stances feature off, or
\* active with it on
Toolbelts == {"absent", "stances-off", "stances-on"}

\* The actor a fresh HUD would read: a character, no toolbelt, the item with
\* a frequency unused, the weapon's toggles unset
HomeActor ==
    [ isCharacter |-> TRUE, toolbelt |-> "absent", stances |-> {},
      inParty |-> FALSE, kineticAura |-> FALSE,
      frequency |-> MaxFrequency, doubleBarrel |-> FALSE, versatile |-> "null" ]

\* CONFIG.PF2E.damageTypes and elementTraits, as far as the buttons go; the
\* weapon's own damage type
DamageTypes == {"fire", "slashing"}

ElementTraits == {"fire", "air"}

BaseDamageType == "slashing"

CLOSE_OPTIONS == {"never", "sidebar", "all"}

MODES == {"exploded", "left", "right"}

\* AdvancedHudEvent, and the setting each event reads
Events == {"send-to-chat", "cast-spell"}

eventToSetting(event) ==
    IF event = "send-to-chat" THEN "closeOnSendToChat" ELSE "closeOnSpell"

\* The settings live in the host's store.  "mode" has an onChange handler and
\* is kept as state; "enabled", "closeAllOnCLick" and the close settings have
\* none, so the value a handler reads is whatever the store holds at that
\* moment: an input of the handler, drawn from the setting's choices.
SETTINGS_DEFAULT == [mode |-> "exploded"]

\* default of every close setting, line 101
CLOSE_DEFAULT == "never"

\* default of scaleDimensions, line 83
SCALE_DIMENSIONS_DEFAULT == FALSE

----------------------------------------------------------------------------
(* The HUD state as one record, for the handlers to transform *)

Cur ==
    [ token |-> token, sidebar |-> sidebar, mainElement |-> mainElement,
      mains |-> mains, panel |-> panel,
      element |-> element, canvasPanHook |-> canvasPanHook,
      activeElement |-> activeElement, queued |-> queued, inflight |-> inflight,
      ret |-> "none", err |-> FALSE ]

Install(s) ==
    /\ token' = s.token
    /\ sidebar' = s.sidebar
    /\ mainElement' = s.mainElement
    /\ mains' = s.mains
    /\ panel' = s.panel
    /\ element' = s.element
    /\ canvasPanHook' = s.canvasPanHook
    /\ activeElement' = s.activeElement
    /\ queued' = s.queued
    /\ inflight' = s.inflight
    /\ ret' = s.ret
    /\ err' = s.err

\* The entry point op, called with arg and reading the setting value read,
\* ends in HUD state s
Do(op, arg, read, s) ==
    /\ Install(s)
    /\ last' = [op |-> op, arg |-> arg, read |-> read,
                token |-> token, sidebar |-> sidebar]
    /\ UNCHANGED << call, actor, updates, used, sections >>

----------------------------------------------------------------------------
(* Base classes: the sidebar slot, close and render, as the specification  *)
(* describes them                                                          *)

\* toggleSidebar(name | null), section 4.4: the showing sidebar's own name and
\* null both give None; another name tears the showing panel down and shows it.
toggleSidebar(s, name) ==
    IF name = s.sidebar \/ name = NoSidebar
        THEN [s EXCEPT !.sidebar = NoSidebar, !.panel = "none"]
        ELSE [s EXCEPT !.sidebar = name, !.panel = "pending"]

\* render(force), section 4.1: runs the render pipeline if Open, no-op if Closed.
\* The pipeline is asynchronous: the request waits for the render in flight.
render(s) ==
    IF s.token = NoToken THEN s ELSE [s EXCEPT !.queued = @ + 1]

\* _onClose, had it left the reference to the main element in place
_onClose_keepMainElement(s) == [s EXCEPT !.canvasPanHook = FALSE]

\* _onClose, lines 272-276
_onClose(s) ==
    [s EXCEPT !.mainElement = NoElement, !.canvasPanHook = FALSE]

\* close(), sections 3 and 4.1: the tracked token is cleared, the sidebar goes
\* with the HUD, the frame leaves the document (taking the focus of any input in
\* it along) and _onClose runs.
close(s) ==
    LET s1 == toggleSidebar(s, NoSidebar)
        s2 == [s1 EXCEPT
                 !.token = NoToken,
                 !.element = FALSE,
                 !.mains = 0,
                 !.mainElement =
                     IF @ = NoElement THEN @ ELSE [@ EXCEPT !.attached = FALSE],
                 !.activeElement = IF @ \in InputNames THEN NoFocus ELSE @]
    IN  _onClose(s2)

\* _onSetToken, had it not asked for a render
_onSetToken_noRender(s) == s

\* _onSetToken, had it run the render pipeline itself instead of asking
\* render() for it
_onSetToken_pipeline(s) == [s EXCEPT !.queued = @ + 1]

\* _onSetToken, lines 194-196
_onSetToken(s) == render(s)

\* super.setToken(token), section 4.1: null closes, a token is tracked; either
\* way the subclass hook runs.
superSetToken(s, t) ==
    IF t = NoToken
        THEN _onSetToken(close(s))
        ELSE _onSetToken([s EXCEPT !.token = t])

\* isCurrentActor(actor): the actor of the tracked token (one actor per token)
isCurrentActor(s, a) == s.token # NoToken /\ s.token = a

----------------------------------------------------------------------------
(* PF2eHudToken *)

\* The eligibility checks, had the one of actor.sheet.rendered been left out
Eligible_noSheetCheck(t, sheets) ==
    /\ HasActor(t)
    /\ IsOwner(t)
    /\ ActorType(t) \notin {"loot", "party"}
    /\ ~InPersistent(t)

\* The four eligibility checks of setToken, lines 326-332
Eligible(t, sheets) ==
    /\ HasActor(t)
    /\ IsOwner(t)
    /\ ActorType(t) \notin {"loot", "party"}
    /\ t \notin sheets
    /\ ~InPersistent(t)

\* setToken, had it not closed the sidebar first (line 322)
setToken_keepSidebar(s, t, sheets) ==
    IF t = NoToken
        THEN superSetToken(s, NoToken)
        ELSE superSetToken(s, IF Eligible(t, sheets) THEN t ELSE NoToken)

\* setToken, lines 321-337
setToken(s, t, sheets) ==
    LET s1 == toggleSidebar(s, NoSidebar)
    IN  IF t = NoToken
            THEN superSetToken(s1, NoToken)
            ELSE superSetToken(s1, IF Eligible(t, sheets) THEN t ELSE NoToken)

\* closeIf, had the branches of "all" and "sidebar" been exchanged
closeIf_swapped(s, event, getSetting) ==
    LET setting == getSetting[eventToSetting(event)]
    IN  CASE setting = "never" -> [s EXCEPT !.ret = "false"]
          [] setting = "sidebar" -> [close(s) EXCEPT !.ret = "true"]
          [] setting = "all" -> [toggleSidebar(s, NoSidebar) EXCEPT !.ret = "true"]

\* closeIf, had it returned whether something that was open got closed
closeIf_returnsEffect(s, event, getSetting) ==
    LET setting == getSetting[eventToSetting(event)]
        after == CASE setting = "never" -> s
                   [] setting = "all" -> close(s)
                   [] setting = "sidebar" -> toggleSidebar(s, NoSidebar)
    IN  [after EXCEPT !.ret =
            IF after.sidebar # s.sidebar \/ after.token # s.token
                THEN "true" ELSE "false"]

\* closeIf, lines 339-351; the returned value goes to ret
closeIf(s, event, getSetting) ==
    LET setting == getSetting[eventToSetting(event)]
    IN  CASE setting = "never" -> [s EXCEPT !.ret = "false"]
          [] setting = "all" -> [close(s) EXCEPT !.ret = "true"]
          [] setting = "sidebar" -> [toggleSidebar(s, NoSidebar) EXCEPT !.ret = "true"]

\* #clickClose, had it closed the HUD without closing the sidebar first
clickClose_noSidebarStage(s, getSetting) ==
    IF getSetting["closeAllOnCLick"]
        THEN close(s)
        ELSE IF s.activeElement \in InputNames \cup {OutsideInput}
            THEN [s EXCEPT !.activeElement = NoFocus]
            ELSE close(s)

\* #clickClose, had it not looked at the focused element
clickClose_noBlur(s, getSetting) ==
    IF getSetting["closeAllOnCLick"]
        THEN close(s)
        ELSE IF s.sidebar # NoSidebar
            THEN toggleSidebar(s, NoSidebar)
            ELSE close(s)

\* #clickClose, lines 353-368
clickClose(s, getSetting) ==
    IF getSetting["closeAllOnCLick"]
        THEN close(s)
        ELSE IF s.activeElement \in InputNames \cup {OutsideInput}
            THEN [s EXCEPT !.activeElement = NoFocus]
            ELSE IF s.sidebar # NoSidebar
                THEN toggleSidebar(s, NoSidebar)
                ELSE close(s)

\* prepareContext, had line 212 read the token's name through this.token?.
prepareContext_optionalToken(parentData, tok) ==
    IF ~parentData.hasActor \/ ~HasHealth(parentData.actor)
        THEN [health |-> FALSE, actor |-> parentData.actor, thrown |-> FALSE]
        ELSE [health |-> TRUE, actor |-> parentData.actor, thrown |-> FALSE]

\* The rest of _prepareContext after its await, lines 200-215: the context has
\* a health block only for an actor that has one, and building the full
\* context reads this.token.document, which throws once no token is tracked.
prepareContext(parentData, tok) ==
    IF ~parentData.hasActor \/ ~HasHealth(parentData.actor)
        THEN [health |-> FALSE, actor |-> parentData.actor, thrown |-> FALSE]
        ELSE [health |-> TRUE, actor |-> parentData.actor, thrown |-> tok = NoToken]

\* _renderHTML, had it rendered the template whatever the context holds
renderHTML_noHealthCheck(context) == context.actor

\* _renderHTML, lines 218-221: the body, named after the actor it shows
renderHTML(context) ==
    IF ~context.health THEN "empty" ELSE context.actor

\* HTMLElement.focus() on the input called name of element el, when active is
\* the focused element: an element that is not in the document cannot take the
\* focus, and the call changes nothing.
focus(el, name, active) ==
    IF el.attached /\ el.body # "empty" /\ name \in InputNames
        THEN << "new", name >>
        ELSE active

\* _replaceHTML, had it appended the new element whether or not there is an
\* old one
_replaceHTML_alwaysAppend(s, result, mode) ==
    [s EXCEPT
       !.mainElement =
           [ body |-> result,
             exploded |-> mode = "exploded",
             wrapper |-> CASE mode = "exploded" -> "none"
                           [] mode = "left" -> "joined left"
                           [] OTHER -> "joined",
             attached |-> s.element,
             positioned |-> FALSE ],
       !.mains = IF s.element THEN @ + 1 ELSE @]

\* _replaceHTML, lines 223-260
_replaceHTML(s, result, mode) ==
    LET oldElement == s.mainElement
        active0 == IF s.activeElement \in InputNames
                       THEN << "old", s.activeElement >>
                       ELSE << "doc", s.activeElement >>
        focusName == IF oldElement # NoElement /\ active0[1] = "old"
                         THEN active0[2] ELSE "undefined"
        created == [ body |-> result,
                     exploded |-> mode = "exploded",
                     wrapper |-> CASE mode = "exploded" -> "none"
                                   [] mode = "left" -> "joined left"
                                   [] OTHER -> "joined",
                     attached |-> FALSE,
                     positioned |-> FALSE ]
        active1 == IF focusName # "undefined"
                       THEN focus(created, focusName, active0) ELSE active0
        mounted == [created EXCEPT !.attached =
                       IF oldElement # NoElement THEN oldElement.attached ELSE s.element]
        \* the old element has left the document, and its focused input with it
        active2 == IF active1[1] = "old" THEN NoFocus ELSE active1[2]
    IN  [s EXCEPT !.mainElement = mounted, !.activeElement = active2,
                  \* replaceWith puts one element in the place of another;
                  \* appendChild adds one to the frame's content
                  !.mains = IF oldElement # NoElement THEN @
                            ELSE IF s.element THEN @ + 1 ELSE @]

\* _updatePosition, had it set the frame's transform to the zoom whatever
\* scaleDimensions says
updatePosition_zoomTwice(tok, el, mainEl, cv, scaleDimensions, position) ==
    IF ~el \/ tok = NoToken
        THEN [position |-> position, elementStyle |-> NoStyle, mainStyle |-> NoStyle]
        ELSE
            LET usedScale == IF scaleDimensions THEN 1 ELSE cv.scale
            IN  [ position |->
                      [set |-> TRUE, left |-> cv.x, top |-> cv.y,
                       width |-> cv.width, height |-> cv.height,
                       scale |-> cv.scale],
                  elementStyle |->
                      [set |-> TRUE, left |-> cv.x, top |-> cv.y,
                       width |-> cv.width * usedScale,
                       height |-> cv.height * usedScale,
                       scale |-> cv.scale],
                  mainStyle |->
                      IF mainEl = NoElement THEN NoStyle
                      ELSE [set |-> TRUE,
                            left |-> bounds(tok).left * usedScale,
                            top |-> bounds(tok).top * usedScale,
                            width |-> document(tok).width * cv.size * usedScale,
                            height |-> document(tok).height * cv.size * usedScale,
                            scale |-> 1] ]

\* _updatePosition, had it returned early only for a missing frame
updatePosition_elementOnly(tok, el, mainEl, cv, scaleDimensions, position) ==
    IF ~el
        THEN [position |-> position, elementStyle |-> NoStyle, mainStyle |-> NoStyle]
        ELSE
            LET usedScale == IF scaleDimensions THEN 1 ELSE cv.scale
                positionScale == IF scaleDimensions THEN cv.scale ELSE 1
                placed == [set |-> TRUE, left |-> cv.x, top |-> cv.y,
                           width |-> cv.width * usedScale,
                           height |-> cv.height * usedScale,
                           scale |-> positionScale]
            IN  [ position |-> [placed EXCEPT !.width = cv.width, !.height = cv.height],
                  elementStyle |-> placed,
                  mainStyle |-> IF mainEl = NoElement THEN NoStyle ELSE placed ]

\* _updatePosition, lines 278-319, as a function of what it reads: the tracked
\* token tok, the frame el, the main element mainEl, the canvas cv, the setting
\* scaleDimensions and the position object it is given.  It gives the position
\* it returns and the styles it wrote to the frame and to the main element.
\* ratio (line 305) is the fraction size / 100, kept as numerator and
\* denominator: the products of lines 309-310 are taken exactly.
updatePosition(tok, el, mainEl, cv, scaleDimensions, position) ==
    IF ~el \/ tok = NoToken
        THEN [position |-> position, elementStyle |-> NoStyle, mainStyle |-> NoStyle]
        ELSE
            LET scale == cv.scale
                usedScale == IF scaleDimensions THEN 1 ELSE scale
                positionScale == IF scaleDimensions THEN scale ELSE 1
                ratio == [n |-> cv.size, d |-> 100]
            IN  [ position |->
                      [set |-> TRUE, left |-> cv.x, top |-> cv.y,
                       width |-> cv.width, height |-> cv.height,
                       scale |-> positionScale],
                  elementStyle |->
                      [set |-> TRUE, left |-> cv.x, top |-> cv.y,
                       width |-> cv.width * usedScale,
                       height |-> cv.height * usedScale,
                       scale |-> positionScale],
                  mainStyle |->
                      IF mainEl = NoElement THEN NoStyle
                      ELSE [set |-> TRUE,
                            left |-> bounds(tok).left * usedScale,
                            top |-> bounds(tok).top * usedScale,
                            width |-> (document(tok).width * ratio.n * 100 * usedScale)
                                          \div ratio.d,
                            height |-> (document(tok).height * ratio.n * 100 * usedScale)
                                           \div ratio.d,
                            scale |-> 1] ]

\* this._updatePosition() on the HUD, the canvas being cv: the main element
\* is positioned once the call has written its style
_updatePosition(s, cv, scaleDimensions) ==
    LET r == updatePosition(s.token, s.element, s.mainElement, cv,
                            scaleDimensions, EmptyPosition)
    IN  IF r.mainStyle.set
            THEN [s EXCEPT !.mainElement.positioned = TRUE]
            ELSE s

\* this.sidebar?._updatePosition(), line 42: a rendered panel is placed from
\* this.anchor (lines 124-130), which reads the main element's bounds and
\* throws when there is none
sidebarUpdatePosition(s) ==
    IF s.sidebar = NoSidebar \/ s.panel = "pending" THEN s
    ELSE IF s.mainElement = NoElement THEN [s EXCEPT !.err = TRUE]
    ELSE [s EXCEPT !.panel = IF s.mainElement.positioned THEN "placed" ELSE "stale"]

\* The callback of #canvasPanHook, had it moved the sidebar before the HUD
canvasPanCallback_sidebarFirst(s, cv, scaleDimensions) ==
    _updatePosition(sidebarUpdatePosition(s), cv, scaleDimensions)

\* The callback of #canvasPanHook, lines 40-43
canvasPanCallback(s, cv, scaleDimensions) ==
    sidebarUpdatePosition(_updatePosition(s, cv, scaleDimensions))

\* _onRender, had it only activated the canvasPan hook
_onRender_hookOnly(s) == [s EXCEPT !.canvasPanHook = TRUE]

\* _onRender, lines 267-270
_onRender(s) ==
    [s EXCEPT !.canvasPanHook = TRUE,
              !.panel = IF s.sidebar # NoSidebar THEN "pending" ELSE @]

\* The continuation of a render after super._prepareContext resolves:
\* _prepareContext's tail, _renderHTML, the frame's creation on a first
\* render, _replaceHTML, the position update the pipeline makes after the DOM
\* swap (sections 2 and 4.2) and _onRender.  A throw rejects the render.
\* Whether the main element gets positioned does not depend on the canvas or
\* on scaleDimensions, so the pipeline's call is given the home canvas.
renderResume(s, getSetting) ==
    LET context == prepareContext(s.inflight, s.token)
        s0 == [s EXCEPT !.inflight = NoRender]
    IN  IF context.thrown
            THEN [s0 EXCEPT !.err = TRUE]
            ELSE _onRender(
                     _updatePosition(
                         _replaceHTML([s0 EXCEPT !.element = TRUE],
                                      renderHTML(context), getSetting["mode"]),
                         HomeCanvas, SCALE_DIMENSIONS_DEFAULT))

----------------------------------------------------------------------------
(* PF2eHudSidebarActions: the handlers of the [data-action] listener.  Each *)
(* gives whether it threw, whether it called the method of its target, and  *)
(* the document update it issued.                                           *)

NoUpdate == [path |-> "none"]

Done(called, update) == [thrown |-> FALSE, called |-> called, update |-> update]

Thrown == [thrown |-> TRUE, called |-> FALSE, update |-> NoUpdate]

\* getBlast, lines 689-703: throws on an unknown element or damage type
getBlast(blastElement, damageType) ==
    IF blastElement \notin ElementTraits \/ damageType \notin DamageTypes
        THEN "thrown" ELSE "blast"

\* blast-attack, blast-damage and blast-set-damage-type, lines 733-749
blastAction(blastElement, damageType) ==
    IF getBlast(blastElement, damageType) = "thrown" THEN Thrown ELSE Done(TRUE, NoUpdate)

\* getStrike, lines 705-722; strike is what the button's data-index leads to:
\* "missing", "unready" or "ready"
getStrike(strike, readyOnly) ==
    IF strike = "missing" \/ (readyOnly /\ strike = "unready") THEN "null" ELSE strike

\* strike-attack, strike-damage, strike-critical and auxiliary-action, lines
\* 751-775: every step on the strike is an optional call
strikeAction(action, strike) ==
    Done(getStrike(strike, action = "strike-attack") # "null", NoUpdate)

\* toggle-weapon-trait, lines 777-801; weapon is the item of the strike:
\* "missing", "plain", or "double-barrel" for a weapon that has that trait
toggleWeaponTrait(a, weapon, trait, value, buttonSelected) ==
    IF trait = "double-barrel"
        THEN IF weapon # "double-barrel"
                 THEN Thrown
                 ELSE Done(TRUE, [path |-> "doubleBarrel", value |-> ~a.doubleBarrel])
    ELSE IF trait = "versatile"
        THEN LET baseType == IF weapon = "missing" THEN "null" ELSE BaseDamageType
                 selected == IF buttonSelected \/ value = baseType
                                 THEN "null" ELSE value
                 selectionIsValid == selected \in DamageTypes \/ selected = "null"
             IN  IF weapon # "missing" /\ selectionIsValid
                     THEN Done(TRUE, [path |-> "versatile", value |-> selected])
                     ELSE Thrown
    ELSE Thrown

\* use-action, lines 865-891; item is what the row's item id leads to:
\* "missing", "flurry" (the action with a frequency) or "homebrew".  The
\* update of line 872 is issued and not awaited.
useAction(a, item) ==
    IF item = "missing" THEN Done(FALSE, NoUpdate)
    ELSE IF item = "flurry" /\ MaxFrequency > 0 /\ a.frequency > 0
        THEN Done(TRUE, [path |-> "frequency", value |-> a.frequency - 1])
        ELSE Done(TRUE, NoUpdate)

\* The host applies an update to the stored data
applyUpdate(a, update) ==
    CASE update.path = "frequency" -> [a EXCEPT !.frequency = update.value]
      [] update.path = "doubleBarrel" -> [a EXCEPT !.doubleBarrel = update.value]
      [] update.path = "versatile" -> [a EXCEPT !.versatile = update.value]
      [] OTHER -> a

\* ACTION_TYPES[type].sort, lines 431-437
ACTION_TYPES ==
    [action |-> 0, reaction |-> 1, free |-> 2, passive |-> 3, exploration |-> 3]

\* R.sortBy: the elements of S in ascending order of key
RECURSIVE sortBy(_, _)
sortBy(S, key) ==
    IF S = {} THEN << >>
    ELSE LET x == CHOOSE y \in S : \A z \in S : key[y] <= key[z]
         IN << x >> \o sortBy(S \ {x}, key)

\* The stances block of the context, lines 480-489: undefined ("none") unless
\* the actor is a character and the toolbelt's stances feature is on
stancesOf(a) ==
    IF ~a.isCharacter \/ a.toolbelt # "stances-on" THEN "none" ELSE "stances"

\* An excludedUUIDS that leaves every ability in
excludedUUIDS_none(a) == {}

\* excludedUUIDS, line 579
excludedUUIDS(a) ==
    IF stancesOf(a) = "none" THEN {} ELSE { actionUUID(x) : x \in a.stances }

\* frequency and usage of an entry, lines 620-650
NoFrequency == [max |-> 0, value |-> 0]

\* actionSections of the context, lines 574-668
actionSections(a) ==
    LET abilityTypes == IF a.isCharacter THEN {"action", "feat"} ELSE {"action"}
        hasKineticAura == a.isCharacter /\ a.kineticAura
        inParty == IF a.isCharacter THEN a.inParty ELSE FALSE
        isExploration(ability) == a.isCharacter /\ "exploration" \in ability.traits
        skipped(ability) ==
            \/ ability.slug = "elemental-blast" /\ hasKineticAura
            \/ ability.sourceId # "none" /\ ability.sourceId \in excludedUUIDS(a)
            \/ ability.kind = "feat" /\ ability.cost = "none"
            \/ "downtime" \in ability.traits
            \/ ~inParty /\ isExploration(ability)
        typeOf(ability) ==
            IF ability.cost # "none" THEN ability.cost
            ELSE IF a.isCharacter
                 THEN (IF isExploration(ability) THEN "exploration" ELSE "free")
                 ELSE "passive"
        frequencyOf(ability) ==
            IF ability.frequency /\ MaxFrequency # 0
                THEN [max |-> MaxFrequency, value |-> a.frequency]
                ELSE NoFrequency
        usageOf(ability) ==
            IF isExploration(ability) \/ frequencyOf(ability) = NoFrequency THEN "none"
            ELSE IF a.frequency = 0 THEN "disabled" ELSE "enabled"
        kept == { ability \in Abilities :
                     ability.kind \in abilityTypes /\ ~skipped(ability) }
        types == { typeOf(ability) : ability \in kept }
        entry(ability) ==
            [id |-> ability.id, name |-> ability.name,
             usage |-> usageOf(ability), frequency |-> frequencyOf(ability)]
        actionsOf(type) ==
            LET of == { ability \in kept : typeOf(ability) = type }
                sorted == sortBy(of, [ability \in of |-> ability.name])
            IN [i \in DOMAIN sorted |-> entry(sorted[i])]
        order == sortBy(types, [type \in types |-> ACTION_TYPES[type]])
    IN [i \in DOMAIN order |-> [type |-> order[i], actions |-> actionsOf(order[i])]]

----------------------------------------------------------------------------
(* The state after construction *)

Init ==
    /\ token = NoToken
    /\ sidebar = NoSidebar
    /\ mainElement = NoElement
    /\ mains = 0
    /\ panel = "none"
    /\ element = FALSE
    /\ canvasPanHook = FALSE
    /\ initialized = FALSE
    /\ registrations = 0
    /\ activeElement = NoFocus
    /\ settings = SETTINGS_DEFAULT
    /\ sheetRendered = {}
    /\ queued = 0
    /\ inflight = NoRender
    /\ ret = "none"
    /\ err = FALSE
    /\ last = [op |-> "init", arg |-> "none", read |-> "none",
               token |-> NoToken, sidebar |-> NoSidebar]
    /\ call = NoCall
    /\ actor = HomeActor
    /\ updates = << >>
    /\ used = [start |-> actor.frequency, positive |-> 0]
    /\ sections = << >>

\* A handler that is about to ask for a render runs only while the queue of
\* waiting requests has room
CanRender == queued < MaxQueue

World == << initialized, registrations, settings, sheetRendered >>

----------------------------------------------------------------------------
(* The entry points *)

\* _onEnable, had it not returned early once initialized
OnEnable_noInitializedCheck(enabled) ==
    /\ initialized' = (initialized \/ enabled)
    /\ registrations' = IF enabled THEN registrations + 1 ELSE registrations
    /\ Do("_onEnable", "none", IF enabled THEN "on" ELSE "off", Cur)
    /\ UNCHANGED << settings, sheetRendered >>

\* _onEnable, lines 132-192: registers the wrappers and hooks once, when enabled
OnEnable(enabled) ==
    /\ initialized' = (initialized \/ enabled)
    /\ registrations' = IF ~initialized /\ enabled
                            THEN registrations + 1 ELSE registrations
    /\ Do("_onEnable", "none", IF enabled THEN "on" ELSE "off", Cur)
    /\ UNCHANGED << settings, sheetRendered >>

\* setToken(candidate), called by the click wrapper and by other modules
SetToken(t) ==
    /\ t \in Trackable => CanRender
    /\ Do("setToken", t, "none", setToken(Cur, t, sheetRendered))
    /\ UNCHANGED World

\* close()
Close ==
    /\ Do("close", "none", "none", close(Cur))
    /\ UNCHANGED World

\* closeIf(event), the event's close setting holding policy
CloseIf(event, policy) ==
    /\ Do("closeIf", event, policy,
          closeIf(Cur, event, (eventToSetting(event) :> policy)))
    /\ UNCHANGED World

\* The "open-sidebar" listener, had it shown the button's sidebar whatever
\* is showing
ClickOpenSidebar_alwaysShow(name) ==
    /\ element
    /\ mainElement # NoElement
    /\ mainElement.attached
    /\ mainElement.body # "empty"
    /\ Do("open-sidebar", name, "none",
          [Cur EXCEPT !.sidebar = name, !.panel = "pending"])
    /\ UNCHANGED World

\* A click on an "open-sidebar" button of the mounted main element,
\* #activateListeners, lines 370-378
ClickOpenSidebar(name) ==
    /\ element
    /\ mainElement # NoElement
    /\ mainElement.attached
    /\ mainElement.body # "empty"
    /\ Do("open-sidebar", name, "none", toggleSidebar(Cur, name))
    /\ UNCHANGED World

\* The click wrapper, had it called setToken whichever token is clicked
TokenClickLeft_alwaysSet(t, plain) ==
    /\ initialized
    /\ (plain /\ t \in Trackable /\ t # token) => CanRender
    /\ Do(IF plain THEN "token-click" ELSE "token-click-modified",
          IF plain THEN t ELSE "none", "none",
          IF ~plain THEN Cur ELSE setToken(Cur, t, sheetRendered))
    /\ UNCHANGED World

\* Token._onClickLeft wrapper, lines 144-157; plain: no shift, no ctrl, the
\* select tool
TokenClickLeft(t, plain) ==
    /\ initialized
    /\ (plain /\ t \in Trackable /\ t # token) => CanRender
    /\ Do(IF plain THEN "token-click" ELSE "token-click-modified",
          IF plain THEN t ELSE "none", "none",
          IF ~plain THEN Cur
          ELSE IF t = token THEN close(Cur)
          ELSE setToken(Cur, t, sheetRendered))
    /\ UNCHANGED World

\* The drag wrapper, had it only called the wrapped method
TokenDragLeftStart_wrappedOnly ==
    /\ initialized
    /\ Do("token-drag", "none", "none", Cur)
    /\ UNCHANGED World

\* Token._onDragLeftStart wrapper, lines 159-170
TokenDragLeftStart ==
    /\ initialized
    /\ Do("token-drag", "none", "none", close(Cur))
    /\ UNCHANGED World

\* TokenLayer._onClickLeft wrapper, lines 172-183
CanvasClickLeft(closeAll) ==
    /\ initialized
    /\ Do("canvas-click", "none", IF closeAll THEN "on" ELSE "off",
          clickClose(Cur, ("closeAllOnCLick" :> closeAll)))
    /\ UNCHANGED World

\* The renderTokenHUD hook, lines 185-187
RenderTokenHUD ==
    /\ initialized
    /\ Do("renderTokenHUD", "none", "none", close(Cur))
    /\ UNCHANGED World

\* The renderActorSheet hook, had it closed the HUD whatever the sheet's actor
RenderActorSheet_anyActor(a) ==
    /\ sheetRendered' = sheetRendered \cup {a}
    /\ Do("renderActorSheet", a, "none",
          IF initialized THEN close(Cur) ELSE Cur)
    /\ UNCHANGED << initialized, registrations, settings >>

\* An actor's full sheet renders; the renderActorSheet hook, lines 189-191
RenderActorSheet(a) ==
    /\ sheetRendered' = sheetRendered \cup {a}
    /\ Do("renderActorSheet", a, "none",
          IF initialized /\ isCurrentActor(Cur, a) THEN close(Cur) ELSE Cur)
    /\ UNCHANGED << initialized, registrations, settings >>

\* An actor's full sheet closes
CloseActorSheet(a) ==
    /\ a \in sheetRendered
    /\ sheetRendered' = sheetRendered \ {a}
    /\ Do("closeActorSheet", a, "none", Cur)
    /\ UNCHANGED << initialized, registrations, settings >>

\* The "mode" setting changes, onChange of lines 75-78
SetMode(m) ==
    /\ m # settings.mode
    /\ token # NoToken => CanRender
    /\ settings' = [settings EXCEPT !.mode = m]
    /\ Do("set-mode", m, "none", render(toggleSidebar(Cur, NoSidebar)))
    /\ UNCHANGED << initialized, registrations, sheetRendered >>

\* The "scaleDimensions" setting changes, onChange of lines 85-88; its value
\* is read by _updatePosition alone, as an input
SetScaleDimensions(value) ==
    /\ token # NoToken => CanRender
    /\ Do("set-scaleDimensions", "none", "none",
          render(toggleSidebar(Cur, NoSidebar)))
    /\ UNCHANGED World

\* The canvas pans or zooms: what was positioned for the former view is out
\* of place, and the canvasPan hook, if active, runs its callback.  Whether
\* the callback positions an element does not depend on where the canvas
\* went, so the callback is given the home canvas.
CanvasPan ==
    LET moved == [Cur EXCEPT
                    !.mainElement =
                        IF @ = NoElement THEN @ ELSE [@ EXCEPT !.positioned = FALSE],
                    !.panel = IF @ = "placed" THEN "stale" ELSE @]
    IN  /\ Do("canvasPan", "none", IF canvasPanHook THEN "on" ELSE "off",
              IF canvasPanHook
                  THEN canvasPanCallback(moved, HomeCanvas, SCALE_DIMENSIONS_DEFAULT)
                  ELSE moved)
        /\ UNCHANGED World

\* The render of the showing sidebar's panel, asked for by toggleSidebar or by
\* _onRender, completes: the panel is placed from the HUD's anchor
SidebarRender ==
    /\ panel = "pending"
    /\ Do("sidebar-render", sidebar, "none",
          sidebarUpdatePosition([Cur EXCEPT !.panel = "rendered"]))
    /\ UNCHANGED World

\* The user puts the keyboard focus in an input of the mounted main element
FocusInput(name) ==
    /\ element
    /\ mainElement # NoElement
    /\ mainElement.attached
    /\ mainElement.body # "empty"
    /\ Do("focus-input", name, "none", [Cur EXCEPT !.activeElement = name])
    /\ UNCHANGED World

\* The user puts the keyboard focus in a text input outside the HUD
FocusOutside ==
    /\ Do("focus-outside", "none", "none", [Cur EXCEPT !.activeElement = OutsideInput])
    /\ UNCHANGED World

\* The next render starts: super._prepareContext reads the tracked actor and
\* suspends (section 5); a render that starts while Closed is a no-op
RenderStart ==
    /\ queued > 0
    /\ inflight = NoRender
    /\ Do("render-start", "none", "none",
          [Cur EXCEPT
             !.queued = @ - 1,
             !.inflight = IF token = NoToken THEN NoRender
                          ELSE [hasActor |-> TRUE, actor |-> token]])
    /\ UNCHANGED World

\* The suspended render resumes
RenderResume ==
    /\ inflight # NoRender
    /\ Do("render-resume", "none", "none", renderResume(Cur, settings))
    /\ UNCHANGED World

Next ==
    \/ \E enabled \in BOOLEAN : OnEnable(enabled)
    \/ \E t \in Tokens \cup {NoToken} : SetToken(t)
    \/ Close
    \/ \E e \in Events, p \in CLOSE_OPTIONS : CloseIf(e, p)
    \/ \E n \in SidebarNames : ClickOpenSidebar(n)
    \/ \E t \in Tokens, plain \in BOOLEAN : TokenClickLeft(t, plain)
    \/ TokenDragLeftStart
    \/ \E closeAll \in BOOLEAN : CanvasClickLeft(closeAll)
    \/ RenderTokenHUD
    \/ \E a \in SheetActors : RenderActorSheet(a)
    \/ \E a \in SheetActors : CloseActorSheet(a)
    \/ \E m \in MODES : SetMode(m)
    \/ \E v \in BOOLEAN : SetScaleDimensions(v)
    \/ CanvasPan
    \/ SidebarRender
    \/ \E n \in InputNames : FocusInput(n)
    \/ FocusOutside
    \/ RenderStart
    \/ RenderResume

Spec == Init /\ [][Next]_vars

----------------------------------------------------------------------------
(* _updatePosition on its own: one call, from each state the HUD can be in  *)
(* when something calls it, for each canvas, setting and given position     *)

\* The main element a completed render has mounted for tracked token t, not
\* positioned yet
MountedFor(t) ==
    [body |-> IF HasHealth(t) THEN t ELSE "empty", exploded |-> TRUE,
     wrapper |-> "none", attached |-> TRUE, positioned |-> FALSE]

\* The HUD states of a call: Closed; Open before the first render has
\* completed; Open with a mounted main element; Closed with the element a
\* late render has mounted
PositionCases ==
    {[token |-> NoToken, element |-> FALSE, mainElement |-> NoElement]}
    \cup {[token |-> t, element |-> FALSE, mainElement |-> NoElement] :
              t \in {"A", "B"}}
    \cup {[token |-> t, element |-> TRUE, mainElement |-> MountedFor(t)] :
              t \in {"A", "B"}}
    \cup {[token |-> NoToken, element |-> TRUE, mainElement |-> MountedFor("H")]}

InitPos ==
    /\ \E c \in PositionCases :
           /\ token = c.token
           /\ element = c.element
           /\ mainElement = c.mainElement
           /\ mains = IF c.mainElement = NoElement THEN 0 ELSE 1
           /\ canvasPanHook = c.element
    /\ sidebar = NoSidebar
    /\ panel = "none"
    /\ initialized = TRUE
    /\ registrations = 1
    /\ activeElement = NoFocus
    /\ settings = SETTINGS_DEFAULT
    /\ sheetRendered = {}
    /\ queued = 0
    /\ inflight = NoRender
    /\ ret = "none"
    /\ err = FALSE
    /\ last = [op |-> "init", arg |-> "none", read |-> "none",
               token |-> NoToken, sidebar |-> NoSidebar]
    /\ \E cv \in Canvases, sd \in BOOLEAN, p \in Positions :
           call = [NoCall EXCEPT !.canvas = cv, !.scaleDimensions = sd, !.given = p]
    /\ actor = HomeActor
    /\ updates = << >>
    /\ used = [start |-> actor.frequency, positive |-> 0]
    /\ sections = << >>

\* this._updatePosition(position) is called
UpdatePositionCall ==
    /\ ~call.done
    /\ call' = [call EXCEPT
                   !.done = TRUE,
                   !.result = updatePosition(token, element, mainElement,
                                             call.canvas, call.scaleDimensions,
                                             call.given)]
    /\ Install(_updatePosition(Cur, call.canvas, call.scaleDimensions))
    /\ last' = [op |-> "_updatePosition", arg |-> "none", read |-> "none",
                token |-> token, sidebar |-> sidebar]
    /\ UNCHANGED World
    /\ UNCHANGED << actor, updates, used, sections >>

NextPos == UpdatePositionCall

SpecPos == InitPos /\ [][NextPos]_vars

----------------------------------------------------------------------------
(* The actions sidebar of an Open HUD: clicks on its [data-action] buttons, *)
(* and the host applying the updates they issue                             *)

\* The HUD is Open on "A" with the actions sidebar showing; the item with a
\* frequency has any stored value and the double-barrel toggle either state
InitActions ==
    /\ token = "A"
    /\ sidebar = "actions"
    /\ mainElement = [MountedFor("A") EXCEPT !.positioned = TRUE]
    /\ mains = 1
    /\ panel = "placed"
    /\ element = TRUE
    /\ canvasPanHook = TRUE
    /\ initialized = TRUE
    /\ registrations = 1
    /\ activeElement = NoFocus
    /\ settings = SETTINGS_DEFAULT
    /\ sheetRendered = {}
    /\ queued = 0
    /\ inflight = NoRender
    /\ ret = "none"
    /\ err = FALSE
    /\ last = [op |-> "init", arg |-> "none", read |-> "none",
               token |-> NoToken, sidebar |-> NoSidebar]
    /\ call = NoCall
    /\ \E f \in 0..MaxFrequency, d \in BOOLEAN :
           actor = [HomeActor EXCEPT !.frequency = f, !.doubleBarrel = d]
    /\ updates = << >>
    /\ used = [start |-> actor.frequency, positive |-> 0]
    /\ sections = << >>

\* What a click on the sidebar leaves alone
HudFrame ==
    << token, sidebar, mainElement, mains, panel, element, canvasPanHook,
       activeElement, queued, inflight, ret, call, sections >>

\* A click on a button of action op has run the handler with result r; the
\* target the button names could be resolved or not
Click(op, unresolved, r) ==
    /\ r.update.path # "none" => Len(updates) < MaxPending
    /\ updates' = IF r.update.path # "none" THEN Append(updates, r.update) ELSE updates
    /\ err' = r.thrown
    /\ last' = [op |-> op,
                arg |-> IF unresolved THEN "unresolved" ELSE "resolved",
                read |-> IF r.called THEN "called" ELSE "none",
                token |-> token, sidebar |-> sidebar]
    /\ UNCHANGED << actor, HudFrame, World >>

\* A click on a blast button, lines 733-749
BlastAction(action, blastElement, damageType) ==
    /\ Click(action,
             blastElement \notin ElementTraits \/ damageType \notin DamageTypes,
             blastAction(blastElement, damageType))
    /\ UNCHANGED used

\* A click on a strike button, lines 751-775
StrikeAction(action, strike) ==
    /\ Click(action, strike = "missing", strikeAction(action, strike))
    /\ UNCHANGED used

\* A click on a weapon-trait toggle, lines 777-801
ToggleWeaponTrait(weapon, trait, value, buttonSelected) ==
    /\ Click("toggle-weapon-trait",
             \/ weapon = "missing"
             \/ trait \notin {"double-barrel", "versatile"}
             \/ trait = "double-barrel" /\ weapon # "double-barrel"
             \/ trait = "versatile" /\ ~buttonSelected
                    /\ value \notin DamageTypes,
             toggleWeaponTrait(actor, weapon, trait, value, buttonSelected))
    /\ UNCHANGED used

\* A click on a use-action button, lines 865-891
UseAction(item) ==
    /\ Click("use-action", item = "missing", useAction(actor, item))
    /\ used' = IF item = "flurry" /\ actor.frequency > 0
                   THEN [used EXCEPT !.positive = @ + 1] ELSE used

\* The host applies the oldest update in flight
ApplyUpdate ==
    /\ updates # << >>
    /\ actor' = applyUpdate(actor, Head(updates))
    /\ updates' = Tail(updates)
    /\ err' = FALSE
    /\ last' = [op |-> "apply-update", arg |-> "none", read |-> "none",
                token |-> token, sidebar |-> sidebar]
    /\ UNCHANGED << used, HudFrame, World >>

BlastActions == {"blast-attack", "blast-damage", "blast-set-damage-type"}

StrikeActions == {"strike-attack", "strike-damage", "strike-critical", "auxiliary-action"}

NextActions ==
    \/ \E a \in BlastActions, e \in {"fire", "bogus"}, d \in {"fire", "bogus"} :
           BlastAction(a, e, d)
    \/ \E a \in StrikeActions, k \in {"missing", "unready", "ready"} :
           StrikeAction(a, k)
    \/ \E w \in {"missing", "plain", "double-barrel"},
          t \in {"double-barrel", "versatile", "reach"},
          v \in {"fire", "slashing", "bogus", "undefined"},
          b \in BOOLEAN :
           ToggleWeaponTrait(w, t, v, b)
    \/ \E i \in {"missing", "flurry", "homebrew"} : UseAction(i)
    \/ ApplyUpdate

SpecActions == InitActions /\ [][NextActions]_vars

----------------------------------------------------------------------------
(* The context of the actions sidebar, built for any actor *)

\* The HUD is Open on "A" with the actions sidebar about to render
InitContext ==
    /\ token = "A"
    /\ sidebar = "actions"
    /\ mainElement = [MountedFor("A") EXCEPT !.positioned = TRUE]
    /\ mains = 1
    /\ panel = "placed"
    /\ element = TRUE
    /\ canvasPanHook = TRUE
    /\ initialized = TRUE
    /\ registrations = 1
    /\ activeElement = NoFocus
    /\ settings = SETTINGS_DEFAULT
    /\ sheetRendered = {}
    /\ queued = 0
    /\ inflight = NoRender
    /\ ret = "none"
    /\ err = FALSE
    /\ last = [op |-> "init", arg |-> "none", read |-> "none",
               token |-> NoToken, sidebar |-> NoSidebar]
    /\ call = NoCall
    /\ \E c \in BOOLEAN, tb \in Toolbelts, st \in SUBSET Stances,
          p \in BOOLEAN, k \in BOOLEAN, f \in 0..MaxFrequency :
           actor = [HomeActor EXCEPT !.isCharacter = c, !.toolbelt = tb,
                                     !.stances = st, !.inParty = p,
                                     !.kineticAura = k, !.frequency = f]
    /\ updates = << >>
    /\ used = [start |-> actor.frequency, positive |-> 0]
    /\ sections = << >>

\* _prepareContext of the actions sidebar, lines 473-683
PrepareContext ==
    /\ sections' = actionSections(actor)
    /\ err' = FALSE
    /\ last' = [op |-> "prepare-context", arg |-> stancesOf(actor), read |-> "none",
                token |-> token, sidebar |-> sidebar]
    /\ UNCHANGED << token, sidebar, mainElement, mains, panel, element,
                    canvasPanHook, activeElement, queued, inflight, ret, call,
                    actor, updates, used, World >>

NextContext == PrepareContext

SpecContext == InitContext /\ [][NextContext]_vars

----------------------------------------------------------------------------
(* The claims *)

Open == token # NoToken

\* No render is waiting or suspended
Quiet == queued = 0 /\ inflight = NoRender

\* C1: in every reachable state, a showing sidebar implies that the HUD is
\* Open (a token is tracked).
C1_SidebarImpliesOpen == sidebar # NoSidebar => Open

\* A sidebar is showing on the HUD of a tracked token, opened by a click on
\* one of the main element's buttons.
C1_Witness ==
    /\ last.op = "open-sidebar"
    /\ sidebar = last.arg
    /\ Open

\* C2 as stated: once setToken has tracked a token, the main element and the
\* sidebar refer to no other token.
C2_NoResidueAtOnce ==
    (last.op = "setToken" /\ last.arg # NoToken /\ token = last.arg) =>
        /\ sidebar = NoSidebar
        /\ mainElement.body \in {"null", "empty", token}

\* C2, amended: the single slot holds the token setToken accepted and the
\* sidebar is None as setToken returns; the main element shows the tracked
\* token's content, or an empty body, once no render is waiting or suspended.
C2_SingleSlot ==
    /\ token \in Trackable \cup {NoToken}
    /\ (last.op = "setToken" /\ last.arg \in Trackable /\ last.arg \notin sheetRendered)
           => (token = last.arg /\ sidebar = NoSidebar)
    /\ (Open /\ Quiet) => mainElement.body \in {"empty", token}

\* setToken("B") has returned, called while "A" was tracked and rendered with
\* a sidebar showing: B is tracked, and the main element still shows A.
C2_Witness ==
    /\ last.op = "setToken"
    /\ last.arg = "B"
    /\ last.token = "A"
    /\ last.sidebar # NoSidebar
    /\ token = "B"
    /\ mainElement.body = "A"

\* The entry points that end in a call of close()
ClosingOps == {"close", "token-drag", "renderTokenHUD"}

EndedInClose ==
    \/ last.op \in ClosingOps
    \/ last.op = "closeIf" /\ last.read = "all"
    \/ last.op = "token-click" /\ last.arg = last.token
    \/ last.op = "renderActorSheet" /\ initialized /\ last.arg = last.token

\* C3: right after any entry point that ends in close(), the sidebar is None
\* (and no token is tracked).
C3_SidebarNoneAfterClose == EndedInClose => (sidebar = NoSidebar /\ ~Open)

\* A drag started while a sidebar was showing has closed the HUD.
C3_Witness ==
    /\ last.op = "token-drag"
    /\ last.sidebar # NoSidebar
    /\ sidebar = NoSidebar

\* The HUD state a handler leaves, set beside the state it started from
HudVars ==
    << token, sidebar, mainElement, mains, panel, element, canvasPanHook,
       activeElement, queued, inflight >>

\* The candidate fails one of the checks the specification lists
C4_Ineligible(t) ==
    \/ ~IsOwner(t)
    \/ ActorType(t) \in {"loot", "party"}
    \/ t \in sheetRendered
    \/ InPersistent(t)

\* C4: setToken with a candidate that fails an eligibility check raises no
\* error and ends in the state setToken(null) gives from the same start:
\* Closed, sidebar None.
C4_IneligibleDowngrade ==
    [][ \A t \in Tokens :
          (last'.op = "setToken" /\ last'.arg = t /\ C4_Ineligible(t)) =>
              /\ Cur' = setToken(Cur, NoToken, sheetRendered)
              /\ ~err'
              /\ token' = NoToken
              /\ sidebar' = NoSidebar ]_vars

\* setToken("A") was called while A's full sheet was rendered and the HUD was
\* open on "B" with a sidebar: the HUD is Closed.
C4_Witness ==
    /\ last.op = "setToken"
    /\ last.arg = "A"
    /\ "A" \in sheetRendered
    /\ last.token = "B"
    /\ last.sidebar # NoSidebar
    /\ token = NoToken

\* C5: setToken closes the sidebar whatever the candidate, and setToken(null)
\* leaves the HUD Closed with no frame, no main element and no sidebar.
C5_SetTokenClosesSidebar ==
    /\ last.op = "setToken" => sidebar = NoSidebar
    /\ (last.op = "setToken" /\ last.arg = NoToken) =>
           /\ ~Open
           /\ ~element
           /\ mainElement = NoElement

\* setToken("B") was called with the HUD open on "A" and a sidebar showing.
C5_Witness ==
    /\ last.op = "setToken"
    /\ last.arg = "B"
    /\ last.token = "A"
    /\ last.sidebar = "actions"
    /\ token = "B"
    /\ sidebar = NoSidebar

\* C6: closeIf makes the transition of the policy its event's setting holds:
\* nothing under "never" (the default), the sidebar alone under "sidebar",
\* the whole HUD under "all".
C6_PolicyTable ==
    /\ CLOSE_DEFAULT = "never"
    /\ [][ last'.op = "closeIf" =>
             CASE last'.read = "never" -> UNCHANGED HudVars
               [] last'.read = "sidebar" ->
                    /\ sidebar' = NoSidebar
                    /\ UNCHANGED << token, mainElement, element, canvasPanHook,
                                    activeElement, queued, inflight >>
               [] last'.read = "all" ->
                    /\ token' = NoToken
                    /\ sidebar' = NoSidebar
                    /\ ~element'
                    /\ mainElement' = NoElement ]_vars

\* closeIf ran under "sidebar" with a sidebar showing: the HUD is still Open
\* on the same token, rendered, without a sidebar.
C6_Witness ==
    /\ last.op = "closeIf"
    /\ last.read = "sidebar"
    /\ last.sidebar # NoSidebar
    /\ sidebar = NoSidebar
    /\ token = last.token
    /\ Open
    /\ mainElement # NoElement

\* C7 as stated: closeIf returns true exactly when the sidebar or the main HUD
\* went from open to closed.
C7_TrueIffClosedSomething ==
    last.op = "closeIf" =>
        (ret = "true" <=>
            \/ (last.sidebar # NoSidebar /\ sidebar = NoSidebar)
            \/ (last.token # NoToken /\ token = NoToken))

\* C7, amended: closeIf returns true exactly when the policy is not "never",
\* that is when it called close() or toggleSidebar(null), whether or not
\* anything was open; it returns false exactly under "never".
C7_TrueIffPolicyActs ==
    last.op = "closeIf" =>
        /\ ret \in {"true", "false"}
        /\ ret = "true" <=> last.read # "never"

\* closeIf ran under "sidebar" with the HUD open and no sidebar showing, and
\* returned true.
C7_Witness ==
    /\ last.op = "closeIf"
    /\ last.read = "sidebar"
    /\ last.sidebar = NoSidebar
    /\ last.token # NoToken
    /\ ret = "true"

\* C8 as stated: a render that resumes after the tracked token has changed
\* from the one it began for writes nothing to the DOM and raises no error.
C8_StaleRenderDiscarded ==
    [][ (last'.op = "render-resume" /\ inflight.actor # token) =>
            /\ mainElement' = mainElement
            /\ ~err' ]_vars

\* C9 as stated: an input of the main element that has the focus when a
\* render swaps the element has it again, in the new mounted element, after
\* the render.
C9_FocusKept ==
    [][ ( /\ last'.op = "render-resume"
          /\ activeElement \in InputNames
          /\ ~err'
          /\ mainElement'.attached
          /\ mainElement'.body # "empty" ) =>
            activeElement' = activeElement ]_vars

\* C10 as stated: a render for an actor without health data leaves the
\* tracked token alone, raises no error and mounts a main element whose
\* inner content is empty.
C10_EmptyInnerContent ==
    [][ (last'.op = "render-resume" /\ ~HasHealth(inflight.actor)) =>
            /\ token' = token
            /\ ~err'
            /\ element'
            /\ mainElement'.attached
            /\ mainElement'.body = "empty"
            /\ mainElement'.wrapper = "none" ]_vars

\* C10, amended: such a render mounts a main element with an empty body: no
\* content at all in mode "exploded", the empty wrapper div alone in the
\* modes "left" and "right".
C10_EmptyBody ==
    [][ (last'.op = "render-resume" /\ ~HasHealth(inflight.actor)) =>
            /\ token' = token
            /\ ~err'
            /\ element'
            /\ mainElement'.attached
            /\ mainElement'.body = "empty"
            /\ (mainElement'.wrapper = "none" <=> settings.mode = "exploded") ]_vars

\* The render of "H", which has no health data, is done in mode "left".
C10_Witness ==
    /\ last.op = "render-resume"
    /\ token = "H"
    /\ last.token = "H"
    /\ element
    /\ mainElement.attached
    /\ mainElement.body = "empty"
    /\ mainElement.wrapper = "joined left"

\* The HUD state close() leaves: no token, no sidebar, no main element, the
\* frame out of the document, the canvasPan hook disabled
ClosedClean ==
    /\ token = NoToken
    /\ sidebar = NoSidebar
    /\ panel = "none"
    /\ mainElement = NoElement
    /\ mains = 0
    /\ ~element
    /\ ~canvasPanHook

\* C11: close() leaves the HUD with no token, no sidebar, no main element and
\* a disabled canvasPan hook, without an error, and a further close() from
\* there changes nothing: closing twice in a row ends where closing once does.
C11_CloseIdempotent ==
    [][last'.op = "close" =>
          /\ ClosedClean'
          /\ ~err'
          /\ close(Cur') = Cur'
          /\ close(close(Cur)) = close(Cur)
          /\ (last.op = "close" => HudVars' = HudVars)]_vars

\* close() has run on a HUD that was Closed already, a render being suspended
C11_Witness ==
    /\ last.op = "close"
    /\ last.token = NoToken
    /\ ClosedClean
    /\ ~err
    /\ inflight # NoRender

\* C12: a click on an open-sidebar button of the Open HUD toggles: the name
\* that is showing gives None (so two clicks on the same name from None end
\* in None), another name gives that sidebar in place of the one showing;
\* the handlers that call toggleSidebar(null) end in None; and there is a
\* panel exactly when a sidebar is showing, one slot holding it.
C12_ToggleSidebar ==
    /\ sidebar \in SidebarNames \cup {NoSidebar}
    /\ (sidebar = NoSidebar) <=> (panel = "none")
    /\ last.op = "open-sidebar" =>
           /\ Open
           /\ sidebar = IF last.sidebar = last.arg THEN NoSidebar ELSE last.arg
    /\ last.op \in {"set-mode", "set-scaleDimensions", "setToken"} =>
           sidebar = NoSidebar

\* The second of two clicks on the same sidebar button has closed the sidebar
C12_Witness ==
    /\ last.op = "open-sidebar"
    /\ last.sidebar = last.arg
    /\ sidebar = NoSidebar
    /\ Open

\* A text input or a textarea has the keyboard focus
InputFocused == activeElement \in InputNames \cup {OutsideInput}

\* C13 as stated: with closeAllOnCLick off and a sidebar showing, a canvas
\* click closes the sidebar and leaves the HUD Open on the same token.
C13_ClickClosesSidebar ==
    (last.op = "canvas-click" /\ last.read = "off" /\ last.sidebar # NoSidebar) =>
        /\ sidebar = NoSidebar
        /\ token = last.token
        /\ Open

\* C13, amended: with closeAllOnCLick on a canvas click closes HUD and sidebar;
\* with it off and no text input focused, the click closes only the sidebar
\* if one is showing (the HUD stays Open on the same token with its main
\* element) and closes the whole HUD otherwise, which is what the second of
\* two clicks finds.
C13_TwoStageDismissal ==
    [][last'.op = "canvas-click" =>
          IF last'.read = "on" THEN ClosedClean'
          ELSE IF InputFocused THEN TRUE
          ELSE IF sidebar # NoSidebar
              THEN /\ sidebar' = NoSidebar
                   /\ token' = token
                   /\ Open'
                   /\ mainElement' = mainElement
                   /\ element' = element
              ELSE ClosedClean']_vars

\* With closeAllOnCLick off, a canvas click has closed the sidebar that was
\* showing and has left the HUD Open on its token
C13_Witness ==
    /\ last.op = "canvas-click"
    /\ last.read = "off"
    /\ last.sidebar # NoSidebar
    /\ sidebar = NoSidebar
    /\ token = last.token
    /\ Open
    /\ mainElement # NoElement

\* C14: a plain left click on a token closes the HUD when that token is the
\* tracked one and otherwise does what setToken does with the clicked token;
\* a click with shift, ctrl or another tool leaves the HUD alone.  The second
\* of two plain clicks on a token finds it tracked and closes the HUD.
C14_TokenClick ==
    [][/\ last'.op = "token-click" =>
              Cur' = IF last'.arg = token
                         THEN close(Cur)
                         ELSE setToken(Cur, last'.arg, sheetRendered)
       /\ (last'.op = "token-click" /\ last'.arg = token) => ClosedClean'
       /\ last'.op = "token-click-modified" => HudVars' = HudVars]_vars

\* A plain click on the tracked token has closed the HUD
C14_Witness ==
    /\ last.op = "token-click"
    /\ last.arg = last.token
    /\ last.arg \in Trackable
    /\ ClosedClean

\* C15: once the hooks are registered, a drag start and a renderTokenHUD
\* event leave the HUD Closed with the sidebar None whatever the state before;
\* a renderActorSheet event closes the HUD when the sheet's actor is the
\* tracked token's actor, and leaves token and sidebar as they are otherwise.
C15_ClosingEvents ==
    /\ last.op \in {"token-drag", "renderTokenHUD"} => ClosedClean
    /\ last.op = "renderActorSheet" =>
           IF initialized /\ last.token # NoToken /\ last.arg = last.token
               THEN ClosedClean
               ELSE token = last.token /\ sidebar = last.sidebar

\* The sheet of another actor than the tracked one has rendered, and the HUD
\* is still Open on its token with its sidebar showing
C15_Witness ==
    /\ last.op = "renderActorSheet"
    /\ initialized
    /\ last.arg # last.token
    /\ Open
    /\ token = last.token
    /\ sidebar # NoSidebar
    /\ sidebar = last.sidebar

C17_HookOnlyWhileOpen ==
    /\ ~Open => (~canvasPanHook /\ mainElement = NoElement)
    /\ last.op = "canvasPan" => ~err

\* C18: _updatePosition called with no token tracked or with no frame
\* returns the position object it was given, as given, writes no style to
\* the frame or to the main element, and does not throw.
C18_EarlyReturn ==
    (call.done /\ (token = NoToken \/ ~element)) =>
        /\ call.result.position = call.given
        /\ ~call.result.elementStyle.set
        /\ ~call.result.mainStyle.set
        /\ (mainElement # NoElement => ~mainElement.positioned)
        /\ ~err

\* The call was made with no token tracked while a frame and a main element
\* were mounted, and was given a position that holds values
C18_Witness ==
    /\ call.done
    /\ token = NoToken
    /\ element
    /\ mainElement # NoElement
    /\ call.given.set
    /\ call.result.position = call.given

\* C19: the document never holds two main elements; the reference
\* #mainElement is null exactly when it holds none, and otherwise points at
\* the one mounted element; and the Open HUD has exactly one once a render
\* has completed, however many renders came before.
C19_OneMainElement ==
    /\ mains <= 1
    /\ (mainElement = NoElement) <=> (mains = 0)
    /\ mainElement # NoElement => mainElement.attached
    /\ (last.op = "render-resume" /\ ~err) => mains = 1
    /\ (Open /\ Quiet) => mains = 1

\* A re-render has completed on the Open HUD (a sidebar, which only a mounted
\* main element can open, is showing): one main element is in the document
C19_Witness ==
    /\ last.op = "render-resume"
    /\ Open
    /\ sidebar # NoSidebar
    /\ mains = 1
    /\ mainElement.body = token

\* C20: a completed render of the main HUD asks for a render of the sidebar
\* that is showing, which stays the showing one, and with no sidebar showing
\* it leaves the slot empty and asks for nothing.
C20_SidebarRerender ==
    [][(last'.op = "render-resume" /\ ~err') =>
          IF sidebar # NoSidebar
              THEN sidebar' = sidebar /\ panel' = "pending"
              ELSE sidebar' = NoSidebar /\ panel' = "none"]_vars

\* A render of the main HUD has completed with a sidebar showing, whose panel
\* now waits for the render the main HUD asked for
C20_Witness ==
    /\ last.op = "render-resume"
    /\ ~err
    /\ canvasPanHook
    /\ last.sidebar # NoSidebar
    /\ sidebar = last.sidebar
    /\ panel = "pending"

\* What a render would touch: the waiting requests, the suspended render,
\* the main element and the canvasPan hook
RenderVars == << queued, inflight, mainElement, mains, element, canvasPanHook >>

\* C21: render() called while the HUD is Closed changes nothing: a change of
\* "mode" or "scaleDimensions" on the Closed HUD, the render setToken asks for
\* after it has closed the HUD, and a waiting request that starts once the HUD
\* is Closed queue no render, suspend none, mount no main element, leave the
\* canvasPan hook as it is and leave the HUD Closed.
C21_RenderWhileClosed ==
    [][/\ (last'.op \in {"set-mode", "set-scaleDimensions"} /\ ~Open) =>
              (~Open' /\ UNCHANGED RenderVars)
       /\ (last'.op = "setToken" /\ ~Open') =>
              /\ queued' = queued
              /\ inflight' = inflight
              /\ mainElement' = NoElement
              /\ mains' = 0
              /\ ~canvasPanHook'
       /\ (last'.op = "render-start" /\ ~Open) =>
              /\ ~Open'
              /\ inflight' = NoRender
              /\ UNCHANGED << mainElement, mains, element, canvasPanHook >>]_vars

\* setToken(null) has run on the Open HUD while another render was suspended:
\* the HUD is Closed and the render setToken asked for has queued nothing
C21_Witness ==
    /\ last.op = "setToken"
    /\ last.arg = NoToken
    /\ last.token # NoToken
    /\ ~Open
    /\ queued = 0
    /\ inflight # NoRender
    /\ mainElement = NoElement
    /\ ~canvasPanHook

\* C24: with closeAllOnCLick off, a canvas click made while a text input or a
\* textarea has the focus only takes the focus away: the tracked token, the
\* sidebar and the main element are as before, and nothing is focused for the
\* next click, which then starts the two stages of C13.
C24_ClickOnlyBlurs ==
    [][(last'.op = "canvas-click" /\ last'.read = "off" /\ InputFocused) =>
          /\ token' = token
          /\ sidebar' = sidebar
          /\ panel' = panel
          /\ mainElement' = mainElement
          /\ element' = element
          /\ activeElement' = NoFocus]_vars

\* A canvas click has left the showing sidebar and the Open HUD as they
\* were and has taken the focus away
C24_Witness ==
    /\ last.op = "canvas-click"
    /\ last.read = "off"
    /\ last.sidebar # NoSidebar
    /\ sidebar = last.sidebar
    /\ Open
    /\ token = last.token
    /\ activeElement = NoFocus

\* The HUD is not Open on a token whose actor's sheet is rendered
NoSheetOfTracked == Open => token \notin sheetRendered

\* C25 as stated: in every reachable state the HUD is not Open on a token
\* whose actor's full sheet is rendered.
C25_NeverOpenOnSheet == NoSheetOfTracked

\* What does hold: setToken never tracks a token whose actor's sheet is
\* rendered, and once _onEnable has registered the hooks the render of the
\* tracked actor's sheet closes the HUD, so that every step from a state that
\* is not Open on such a token ends in one.
SheetKeptOutOnceRegistered ==
    [][/\ (last'.op \in {"setToken", "token-click"} /\ Open' /\ token' # token) =>
              token' \notin sheetRendered'
       /\ (last'.op = "renderActorSheet" /\ initialized) => token' # last'.arg
       /\ (initialized /\ NoSheetOfTracked) => NoSheetOfTracked']_vars

\* C26: a call of _onEnable registers the wrappers and hooks exactly when the
\* HUD is enabled and they are not registered yet, and otherwise registers
\* nothing; whatever the calls, they are registered at most once, and they
\* are registered exactly when #initialized is set.
C26_RegisteredOnce ==
    [][last'.op = "_onEnable" =>
          /\ registrations' =
                 IF ~initialized /\ last'.read = "on"
                     THEN registrations + 1 ELSE registrations
          /\ registrations' <= 1
          /\ initialized' <=> (registrations' = 1)]_vars

\* The HUD being enabled, a call of _onEnable has left the wrappers and hooks
\* registered once
C26_Witness ==
    /\ last.op = "_onEnable"
    /\ last.read = "on"
    /\ initialized
    /\ registrations = 1

\* The size factor a call has used: what it multiplied the canvas' width by
SizeFactor == call.result.elementStyle.width \div call.canvas.width

C22_UnresolvedRaises ==
    [][last'.arg = "unresolved" =>
          (err' /\ updates' = updates /\ actor' = actor)]_vars

\* What does hold: toggle-weapon-trait and the blast actions raise on a target
\* that cannot be resolved, and no click on such a target issues an update.
UnresolvedToggleOrBlastRaises ==
    [][last'.arg = "unresolved" =>
          /\ updates' = updates
          /\ actor' = actor
          /\ last'.op \in BlastActions \cup {"toggle-weapon-trait"} => err']_vars

\* C27 as stated: the stored frequency never drops below 0, and once no
\* update is in flight it is the value at the start less the number of
\* use-action clicks that found it greater than 0.
C27_EveryUseCounts ==
    /\ actor.frequency >= 0
    /\ actor.frequency <= used.start
    /\ updates = << >> => actor.frequency + used.positive = used.start

\* The ids of the abilities shown in some action section
Shown(secs) ==
    UNION { { secs[i].actions[j].id : j \in DOMAIN secs[i].actions } :
               i \in DOMAIN secs }

\* The stances the provider returned: none when it was not asked
Returned(a) ==
    IF a.isCharacter /\ a.toolbelt = "stances-on" THEN a.stances ELSE {}

\* An ability left out on a ground other than a stance
OtherGround(a, ability) ==
    \/ ability.kind = "feat" /\ (~a.isCharacter \/ ability.cost = "none")
    \/ ability.slug = "elemental-blast" /\ a.isCharacter /\ a.kineticAura
    \/ "downtime" \in ability.traits
    \/ "exploration" \in ability.traits /\ a.isCharacter /\ ~a.inParty

\* C23: building the context of the actions sidebar leaves the actor's
\* records as they were; no ability whose source id is the actionUUID of a
\* stance the provider returned is shown in an action section; and when the
\* stance feature is absent or off, every ability not left out on another
\* ground is shown.
C23_StanceAbilitiesExcluded ==
    [][last'.op = "prepare-context" =>
          /\ actor' = actor
          /\ \A ability \in Abilities, x \in Returned(actor) :
                 ability.sourceId = actionUUID(x) => ability.id \notin Shown(sections')
          /\ actor.toolbelt # "stances-on" =>
                 \A ability \in Abilities :
                    ~OtherGround(actor, ability) => ability.id \in Shown(sections')]_vars

\* The context was built for a character with the stance feature on and both
\* stances returned: their abilities are left out while others are shown
C23_Witness ==
    /\ last.op = "prepare-context"
    /\ Returned(actor) = Stances
    /\ "flurry" \in Shown(sections)
    /\ "stance-strike" \notin Shown(sections)

====
